---- MODULE Spec2Model ----
(***************************************************************************)
(* The grafana_folder_permission resource                                  *)
(* (internal/resources/grafana/resource_folder_permission.go): the         *)
(* handlers UpdateFolderPermissions, ReadFolderPermissions and             *)
(* DeleteFolderPermissions, the conversions between declared permission    *)
(* entries and grant commands, and the folder's grants in Grafana.         *)
(*                                                                         *)
(* Strings that the code parses, formats or concatenates (team_id,         *)
(* user_id, the resource ID) are sequences of one-character strings.       *)
(* Strings that are only copied or compared (role, permission) are TLA+    *)
(* strings.                                                                *)
(***************************************************************************)
EXTENDS Integers, Sequences, FiniteSets, TLC

\* ------------------------------------------------------------- bounds

\* Stand-in for math.MaxInt64, the largest value strconv.ParseInt(s, 10, 64)
\* returns: larger inputs saturate to it.
MaxInt64 == 60

\* The declared entries the handlers are exercised with are the first
\* NumSamples entries of Samples.
NumSamples == 3

\* The largest number of entries in one declared permission set.
MaxEntries == 2

\* ---------------------------------------------------- strings and integers

DigitChars == <<"0", "1", "2", "3", "4", "5", "6", "7", "8", "9">>

IsDigit(c) == \E i \in 1..10 : DigitChars[i] = c

DigitValue(c) == (CHOOSE i \in 1..10 : DigitChars[i] = c) - 1

\* The value of a string of digits, saturated at MaxInt64 + 1.
RECURSIVE DigitsValue(_)
DigitsValue(s) ==
    IF s = <<>> THEN 0
    ELSE LET hi == DigitsValue(SubSeq(s, 1, Len(s) - 1))
             v  == hi * 10 + DigitValue(s[Len(s)])
         IN  IF v > MaxInt64 THEN MaxInt64 + 1 ELSE v

\* strconv.ParseInt(s, 10, 64) with its error discarded: 0 on a syntax error,
\* the nearest bound on a range error.
ParseInt(s) ==
    LET signed == s # <<>> /\ s[1] \in {"+", "-"}
        body   == IF signed THEN Tail(s) ELSE s
    IN  IF body = <<>> \/ \E i \in 1..Len(body) : ~IsDigit(body[i]) THEN 0
        ELSE IF signed /\ s[1] = "-"
             THEN (IF DigitsValue(body) > MaxInt64 THEN -(MaxInt64 + 1)
                   ELSE -DigitsValue(body))
             ELSE (IF DigitsValue(body) > MaxInt64 THEN MaxInt64
                   ELSE DigitsValue(body))

RECURSIVE FormatNat(_)
FormatNat(n) ==
    IF n < 10 THEN <<DigitChars[n + 1]>>
    ELSE FormatNat(n \div 10) \o <<DigitChars[(n % 10) + 1]>>

\* strconv.FormatInt(n, 10)
FormatInt(n) == IF n < 0 THEN <<"-">> \o FormatNat(-n) ELSE FormatNat(n)

\* The index of the first ":" of s, 0 when there is none.
FirstColon(s) ==
    IF \E i \in 1..Len(s) : s[i] = ":"
    THEN CHOOSE i \in 1..Len(s) : s[i] = ":" /\ \A j \in 1..(i - 1) : s[j] # ":"
    ELSE 0

\* The org of a resource whose ID or org_id attribute names none.
DefaultOrg == 1

\* SplitOrgResourceID: "<org>:<id>" gives (org, id); an ID without an org
\* segment gives org 0, which callers read as the default org.
SplitOrgResourceID(id) ==
    LET k == FirstColon(id)
    IN  IF k = 0 THEN [org |-> 0, id |-> id]
        ELSE [org |-> ParseInt(SubSeq(id, 1, k - 1)),
              id  |-> SubSeq(id, k + 1, Len(id))]

\* MakeOrgResourceID: "<org>:<id>"
MakeOrgResourceID(orgID, id) == FormatInt(orgID) \o <<":">> \o id

\* --------------------------------------------------- the declared entries

\* validation.StringInSlice of "role"; the empty string is an unset role.
Roles == {"", "Viewer", "Editor"}

\* validation.StringInSlice of "permission"
Permissions == {"View", "Edit", "Admin"}

\* A declared entry: one element of the "permissions" set.
Entry(role, team_id, user_id, permission) ==
    [role |-> role, team_id |-> team_id, user_id |-> user_id,
     permission |-> permission]

\* Mutant: the team ID is hashed as written, with its org segment.
HashKey_WithOrg(m) ==
    LET userID == SplitOrgResourceID(m.user_id).id
    IN  (IF m.role = "" THEN <<>> ELSE <<m.role>>) \o m.team_id \o userID
            \o <<m.permission>>

\* The string the Set function of "permissions" hashes: role, team ID and user
\* ID without their org segment, permission, concatenated. An empty role adds
\* no character. schema.HashString is taken to be injective on it.
HashKey(m) ==
    LET teamID == SplitOrgResourceID(m.team_id).id
        userID == SplitOrgResourceID(m.user_id).id
    IN  (IF m.role = "" THEN <<>> ELSE <<m.role>>) \o teamID \o userID
            \o <<m.permission>>

\* What a schema.Set can hold: no two members with one hash.
IsSchemaSet(s) == \A e, f \in s : HashKey(e) = HashKey(f) => e = f

\* The sets schema.Set can be left holding after the members of items are
\* added in some order: of the items with one hash the first added stays.
SchemaSets(items) ==
    IF IsSchemaSet(items) THEN {items}
    ELSE {s \in SUBSET items :
             /\ IsSchemaSet(s)
             /\ \A e \in items : \E f \in s : HashKey(f) = HashKey(e)}

\* ------------------------------------------------------- grant commands

\* models.SetResourcePermissionCommand
Command(builtInRole, teamID, userID, permission) ==
    [builtInRole |-> builtInRole, teamID |-> teamID, userID |-> userID,
     permission |-> permission]

\* Mutant: the user ID is parsed from team_id.
ToCommand_UserFromTeam(permission) ==
    LET teamID == ParseInt(SplitOrgResourceID(permission.team_id).id)
        userID == ParseInt(SplitOrgResourceID(permission.team_id).id)
    IN  Command(IF permission.role # "" THEN permission.role ELSE "",
                IF teamID > 0 THEN teamID ELSE 0,
                IF userID > 0 THEN userID ELSE 0,
                permission.permission)

\* Mutant: the test of the role is inverted, so no role is ever set.
ToCommand_RoleInverted(permission) ==
    LET teamID == ParseInt(SplitOrgResourceID(permission.team_id).id)
        userID == ParseInt(SplitOrgResourceID(permission.user_id).id)
    IN  Command(IF permission.role = "" THEN permission.role ELSE "",
                IF teamID > 0 THEN teamID ELSE 0,
                IF userID > 0 THEN userID ELSE 0,
                permission.permission)

\* Mutant: an ID is set when it is not zero.
ToCommand_NonZero(permission) ==
    LET teamID == ParseInt(SplitOrgResourceID(permission.team_id).id)
        userID == ParseInt(SplitOrgResourceID(permission.user_id).id)
    IN  Command(IF permission.role # "" THEN permission.role ELSE "",
                IF teamID # 0 THEN teamID ELSE 0,
                IF userID # 0 THEN userID ELSE 0,
                permission.permission)

\* The body of the loop of UpdateFolderPermissions: one declared entry to one
\* command. Fields that are not set keep Go's zero value.
ToCommand(permission) ==
    LET teamID == ParseInt(SplitOrgResourceID(permission.team_id).id)
        userID == ParseInt(SplitOrgResourceID(permission.user_id).id)
    IN  Command(IF permission.role # "" THEN permission.role ELSE "",
                IF teamID > 0 THEN teamID ELSE 0,
                IF userID > 0 THEN userID ELSE 0,
                permission.permission)

\* Mutant: the command is declared outside the loop, so every element of the
\* list points at the one command, which holds the entry converted last.
PermissionList_Aliased(list) ==
    [e \in list |-> ToCommand(CHOOSE f \in list : TRUE)]

\* permissionList of UpdateFolderPermissions: one command per member of the
\* declared set, kept per entry so that equal commands stay apart.
PermissionList(list) == [e \in list |-> ToCommand(e)]

\* The commands of a permission list.
CommandsOf(permissionList) ==
    {permissionList[e] : e \in DOMAIN permissionList}

\* ---------------------------------------------------------- remote grants

\* models.ResourcePermissionDTO, the fields the resource reads.
Grant(builtInRole, teamID, userID, permission, isManaged, isInherited) ==
    [builtInRole |-> builtInRole, teamID |-> teamID, userID |-> userID,
     permission |-> permission, isManaged |-> isManaged,
     isInherited |-> isInherited]

\* The grant a command creates: managed, set on the folder itself.
GrantOf(c) == Grant(c.builtInRole, c.teamID, c.userID, c.permission, TRUE, FALSE)

\* The command that would create a grant.
CommandOfGrant(g) == Command(g.builtInRole, g.teamID, g.userID, g.permission)

\* The grants this resource owns: managed and not inherited.
Owned(grants) == {g \in grants : g.isManaged /\ ~g.isInherited}

\* The set-permissions call of updateResourcePermissions, accepted by the
\* service: the owned grants become exactly the submitted commands; grants
\* from roles and inherited grants stay.
SetResourcePermissions(grants, permissionList) ==
    (grants \ Owned(grants)) \cup {GrantOf(c) : c \in CommandsOf(permissionList)}

\* permissionItem of ReadFolderPermissions: the entry of one grant.
ToEntry(permission) ==
    Entry(permission.builtInRole, FormatInt(permission.teamID),
          FormatInt(permission.userID), permission.permission)

\* Mutant: only grants that are not managed are skipped.
PermissionItems_ManagedOnly(folderPermissions) ==
    {ToEntry(permission) :
        permission \in {p \in folderPermissions : ~(~p.isManaged)}}

\* The loop of ReadFolderPermissions: a grant that is not managed or is
\* inherited is skipped, every other grant gives one entry.
PermissionItems(folderPermissions) ==
    {ToEntry(permission) :
        permission \in {p \in folderPermissions :
                           ~(~p.isManaged \/ p.isInherited)}}

\* ------------------------------------------------------------ the handlers

VARIABLES
    folder,   \* whether the folder exists in Grafana
    grants,   \* the folder's grants in Grafana (ResourcePermissionDTO)
    d,        \* the schema.ResourceData the last handler left
    calls,    \* the calls the last handler made to Grafana, in order
    op        \* the last handler, the declared set it was given (apply), the
              \* diagnostics it returned, and what it came after

vars == <<folder, grants, d, calls, op>>

\* foldersPermissionsType
foldersPermissionsType == "folders"

\* The folder_uid of the configuration.
FolderUID == <<"a", "b">>

\* One call to Grafana: the operation, the org and folder it names, the
\* commands it carries (none for a read) and how Grafana answered: "ok",
\* "notfound" (HTTP 404) or "error" (anything else).
Call(api, orgID, uid, body, result) ==
    [api |-> api, org |-> orgID, uid |-> uid, type |-> foldersPermissionsType,
     body |-> body, result |-> result]

\* No commands.
NoBody == PermissionList({})

\* What a handler returns and leaves: the resource data, the folder's grants,
\* the diagnostics ("nil" or "error") and the calls it made.
Result(rd, gr, diags, cs) == [d |-> rd, grants |-> gr, diags |-> diags, calls |-> cs]

\* OAPIClientFromNewOrgResource: the org of the org_id attribute, the default
\* org when it names none.
OrgOfNewResource(rd) ==
    LET orgID == ParseInt(rd.org_id)
    IN  IF orgID = 0 THEN DefaultOrg ELSE orgID

\* OAPIClientFromExistingOrgResource: the org and the folder UID of the
\* resource ID, the default org when the ID names none.
OrgOfExistingResource(id) ==
    LET s == SplitOrgResourceID(id)
    IN  [org |-> IF s.org = 0 THEN DefaultOrg ELSE s.org, id |-> s.id]

\* common.CheckReadError: no error goes on; not-found drops the ID and
\* returns no error; any other error is returned.
CheckReadError(rd, err) ==
    CASE err = "ok"       -> [diags |-> "nil", shouldReturn |-> FALSE, d |-> rd]
      [] err = "notfound" -> [diags |-> "nil", shouldReturn |-> TRUE,
                              d |-> [rd EXCEPT !.id = <<>>]]
      [] OTHER            -> [diags |-> "error", shouldReturn |-> TRUE, d |-> rd]

\* updateResourcePermissions: one set-permissions call carrying the whole
\* list; a call that fails changes nothing.
updateResourcePermissions(gr, orgID, uid, permissionList, answer) ==
    [err    |-> answer,
     grants |-> IF answer = "ok" THEN SetResourcePermissions(gr, permissionList)
                ELSE gr,
     calls  |-> <<Call("SetResourcePermissions", orgID, uid, permissionList, answer)>>]

\* Mutant: the read sets the folder UID as the ID, without the org.
ReadFolderPermissions_IdIsUID(rd, gr, env) ==
    LET c         == OrgOfExistingResource(rd.id)
        getFolder == Call("GetFolderByUID", c.org, c.id, NoBody, env.exists)
        getPerms  == Call("GetResourcePermissions", c.org, c.id, NoBody, env.fetch)
        e1        == CheckReadError(rd, env.exists)
        e2        == CheckReadError(rd, env.fetch)
    IN  IF e1.shouldReturn THEN {Result(e1.d, gr, e1.diags, <<getFolder>>)}
        ELSE IF e2.shouldReturn
             THEN {Result(e2.d, gr, e2.diags, <<getFolder, getPerms>>)}
        ELSE {Result([id          |-> c.id,
                      org_id      |-> FormatInt(c.org),
                      folder_uid  |-> c.id,
                      permissions |-> permissionItems],
                     gr, "nil", <<getFolder, getPerms>>) :
                 permissionItems \in SchemaSets(PermissionItems(gr))}

\* Mutant: the read writes the stored permissions back before it fetches.
ReadFolderPermissions_WritesBack(rd, gr, env) ==
    LET c         == OrgOfExistingResource(rd.id)
        getFolder == Call("GetFolderByUID", c.org, c.id, NoBody, env.exists)
        getPerms  == Call("GetResourcePermissions", c.org, c.id, NoBody, env.fetch)
        e1        == CheckReadError(rd, env.exists)
        e2        == CheckReadError(rd, env.fetch)
        u         == updateResourcePermissions(gr, c.org, c.id,
                                               PermissionList(rd.permissions), "ok")
    IN  IF e1.shouldReturn THEN {Result(e1.d, gr, e1.diags, <<getFolder>>)}
        ELSE IF e2.shouldReturn
             THEN {Result(e2.d, u.grants, e2.diags,
                          <<getFolder>> \o u.calls \o <<getPerms>>)}
        ELSE {Result([id          |-> MakeOrgResourceID(c.org, c.id),
                      org_id      |-> FormatInt(c.org),
                      folder_uid  |-> c.id,
                      permissions |-> permissionItems],
                     u.grants, "nil",
                     <<getFolder>> \o u.calls \o <<getPerms>>) :
                 permissionItems \in SchemaSets(PermissionItems(u.grants))}

\* Mutant: the answer of the existence check is not looked at.
ReadFolderPermissions_NoExistsCheck(rd, gr, env) ==
    LET c         == OrgOfExistingResource(rd.id)
        getFolder == Call("GetFolderByUID", c.org, c.id, NoBody, env.exists)
        getPerms  == Call("GetResourcePermissions", c.org, c.id, NoBody, env.fetch)
        e2        == CheckReadError(rd, env.fetch)
    IN  IF e2.shouldReturn
        THEN {Result(e2.d, gr, e2.diags, <<getFolder, getPerms>>)}
        ELSE {Result([id          |-> MakeOrgResourceID(c.org, c.id),
                      org_id      |-> FormatInt(c.org),
                      folder_uid  |-> c.id,
                      permissions |-> permissionItems],
                     gr, "nil", <<getFolder, getPerms>>) :
                 permissionItems \in SchemaSets(PermissionItems(gr))}

\* ReadFolderPermissions. env gives Grafana's answers; the results differ only
\* in which of the items with one hash d.Set keeps.
ReadFolderPermissions(rd, gr, env) ==
    LET c         == OrgOfExistingResource(rd.id)
        orgID     == c.org
        folderUID == c.id
        getFolder == Call("GetFolderByUID", orgID, folderUID, NoBody, env.exists)
        getPerms  == Call("GetResourcePermissions", orgID, folderUID, NoBody, env.fetch)
        e1        == CheckReadError(rd, env.exists)
        e2        == CheckReadError(rd, env.fetch)
    IN  IF e1.shouldReturn THEN {Result(e1.d, gr, e1.diags, <<getFolder>>)}
        ELSE IF e2.shouldReturn
             THEN {Result(e2.d, gr, e2.diags, <<getFolder, getPerms>>)}
        ELSE {Result([id          |-> MakeOrgResourceID(orgID, folderUID),
                      org_id      |-> FormatInt(orgID),
                      folder_uid  |-> folderUID,
                      permissions |-> permissionItems],
                     gr, "nil", <<getFolder, getPerms>>) :
                 permissionItems \in SchemaSets(PermissionItems(gr))}

\* Mutant: the error of the write is dropped and the handler goes on.
UpdateFolderPermissions_IgnoreErr(rd, gr, env) ==
    LET orgID     == OrgOfNewResource(rd)
        folderUID == rd.folder_uid
        u == updateResourcePermissions(gr, orgID, folderUID,
                                       PermissionList(rd.permissions), env.set)
    IN  {Result(r.d, r.grants, r.diags, u.calls \o r.calls) :
            r \in ReadFolderPermissions(
                     [rd EXCEPT !.id = MakeOrgResourceID(orgID, folderUID)],
                     u.grants, env)}

\* Mutant: the declared set is read only when the resource is created; an
\* update submits an empty list.
UpdateFolderPermissions_CreateOnly(rd, gr, env) ==
    LET orgID     == OrgOfNewResource(rd)
        folderUID == rd.folder_uid
        list      == IF rd.id = <<>> THEN rd.permissions ELSE {}
        u == updateResourcePermissions(gr, orgID, folderUID,
                                       PermissionList(list), env.set)
    IN  IF u.err # "ok" THEN {Result(rd, u.grants, "error", u.calls)}
        ELSE {Result(r.d, r.grants, r.diags, u.calls \o r.calls) :
                 r \in ReadFolderPermissions(
                          [rd EXCEPT !.id = MakeOrgResourceID(orgID, folderUID)],
                          u.grants, env)}

\* Mutant: the ID is set before the write is tried.
UpdateFolderPermissions_SetIdFirst(rd, gr, env) ==
    LET orgID     == OrgOfNewResource(rd)
        folderUID == rd.folder_uid
        rd1       == [rd EXCEPT !.id = MakeOrgResourceID(orgID, folderUID)]
        u == updateResourcePermissions(gr, orgID, folderUID,
                                       PermissionList(rd.permissions), env.set)
    IN  IF u.err # "ok" THEN {Result(rd1, u.grants, "error", u.calls)}
        ELSE {Result(r.d, r.grants, r.diags, u.calls \o r.calls) :
                 r \in ReadFolderPermissions(rd1, u.grants, env)}

\* Mutant: the handler returns after the write, without reading back.
UpdateFolderPermissions_NoReadBack(rd, gr, env) ==
    LET orgID     == OrgOfNewResource(rd)
        folderUID == rd.folder_uid
        u == updateResourcePermissions(gr, orgID, folderUID,
                                       PermissionList(rd.permissions), env.set)
    IN  IF u.err # "ok" THEN {Result(rd, u.grants, "error", u.calls)}
        ELSE {Result([rd EXCEPT !.id = MakeOrgResourceID(orgID, folderUID)],
                     u.grants, "nil", u.calls)}

\* Mutant: with no declared entry the handler skips the write.
UpdateFolderPermissions_SkipEmpty(rd, gr, env) ==
    LET orgID     == OrgOfNewResource(rd)
        folderUID == rd.folder_uid
        u == updateResourcePermissions(gr, orgID, folderUID,
                                       PermissionList(rd.permissions), env.set)
        rd1 == [rd EXCEPT !.id = MakeOrgResourceID(orgID, folderUID)]
    IN  IF rd.permissions = {}
        THEN ReadFolderPermissions(rd1, gr, env)
        ELSE IF u.err # "ok" THEN {Result(rd, u.grants, "error", u.calls)}
        ELSE {Result(r.d, r.grants, r.diags, u.calls \o r.calls) :
                 r \in ReadFolderPermissions(rd1, u.grants, env)}

\* Mutant: the ID is the folder UID alone, without the org.
UpdateFolderPermissions_IdIsUID(rd, gr, env) ==
    LET orgID     == OrgOfNewResource(rd)
        folderUID == rd.folder_uid
        u == updateResourcePermissions(gr, orgID, folderUID,
                                       PermissionList(rd.permissions), env.set)
    IN  IF u.err # "ok" THEN {Result(rd, u.grants, "error", u.calls)}
        ELSE {Result(r.d, r.grants, r.diags, u.calls \o r.calls) :
                 r \in ReadFolderPermissions([rd EXCEPT !.id = folderUID],
                                             u.grants, env)}

\* UpdateFolderPermissions, the create and the update handler.
UpdateFolderPermissions(rd, gr, env) ==
    LET orgID          == OrgOfNewResource(rd)
        list           == rd.permissions
        permissionList == PermissionList(list)
        folderUID      == rd.folder_uid
        u == updateResourcePermissions(gr, orgID, folderUID, permissionList, env.set)
    IN  IF u.err # "ok" THEN {Result(rd, u.grants, "error", u.calls)}
        ELSE {Result(r.d, r.grants, r.diags, u.calls \o r.calls) :
                 r \in ReadFolderPermissions(
                          [rd EXCEPT !.id = MakeOrgResourceID(orgID, folderUID)],
                          u.grants, env)}

\* Mutant: the handler adds its entries to the grants it finds instead of
\* submitting its own list alone.
UpdateFolderPermissionsWrite_Merge(rd, gr, answer) ==
    LET orgID     == OrgOfNewResource(rd)
        folderUID == rd.folder_uid
        u == updateResourcePermissions(
                 gr, orgID, folderUID,
                 PermissionList(rd.permissions \cup PermissionItems(gr)), answer)
    IN  IF u.err # "ok" THEN Result(rd, u.grants, "error", u.calls)
        ELSE Result([rd EXCEPT !.id = MakeOrgResourceID(orgID, folderUID)],
                    u.grants, "nil", u.calls)

\* UpdateFolderPermissions up to d.SetId, the part before it reads back: what
\* the handler has done when its write call has returned.
UpdateFolderPermissionsWrite(rd, gr, answer) ==
    LET orgID          == OrgOfNewResource(rd)
        list           == rd.permissions
        permissionList == PermissionList(list)
        folderUID      == rd.folder_uid
        u == updateResourcePermissions(gr, orgID, folderUID, permissionList, answer)
    IN  IF u.err # "ok" THEN Result(rd, u.grants, "error", u.calls)
        ELSE Result([rd EXCEPT !.id = MakeOrgResourceID(orgID, folderUID)],
                    u.grants, "nil", u.calls)

\* Mutant: the declared list is written again instead of an empty one.
DeleteFolderPermissions_KeepsList(rd, gr, env) ==
    LET c  == OrgOfExistingResource(rd.id)
        u  == updateResourcePermissions(gr, c.org, c.id,
                                        PermissionList(rd.permissions), env.set)
        e  == CheckReadError(rd, u.err)
    IN  {Result(e.d, u.grants, e.diags, u.calls)}

\* Mutant: every error of the write is returned.
DeleteFolderPermissions_FromErr(rd, gr, env) ==
    LET c  == OrgOfExistingResource(rd.id)
        u  == updateResourcePermissions(gr, c.org, c.id, NoBody, env.set)
    IN  {Result(rd, u.grants, IF u.err = "ok" THEN "nil" ELSE "error", u.calls)}

\* DeleteFolderPermissions: an empty list is written; a folder that is gone is
\* no error.
DeleteFolderPermissions(rd, gr, env) ==
    LET c  == OrgOfExistingResource(rd.id)
        u  == updateResourcePermissions(gr, c.org, c.id, NoBody, env.set)
        e  == CheckReadError(rd, u.err)
    IN  {Result(e.d, u.grants, e.diags, u.calls)}

\* ------------------------------------------------------------- the inputs

\* Declared entries: a role grant, a team grant, a team ID that does not fit
\* the integer width, the team grant again with an org segment, a negative
\* user ID, an entry that names a role, a team and a user.
Samples ==
    << Entry("Editor", <<"0">>, <<"0">>, "Edit"),
       Entry("", <<"5">>, <<"0">>, "View"),
       Entry("", <<"9", "9">>, <<"0">>, "Admin"),
       Entry("", <<"1", ":", "5">>, <<"0">>, "View"),
       Entry("Viewer", <<"0">>, <<"-", "1">>, "View"),
       Entry("Viewer", <<"7">>, <<"3">>, "Edit") >>

SampleEntries == {Samples[i] : i \in 1..NumSamples}

\* The declared sets: what d.Get("permissions") can hold.
DeclaredSets ==
    {s \in SUBSET SampleEntries : Cardinality(s) <= MaxEntries /\ IsSchemaSet(s)}

\* Grants the folder can have that this resource did not write: an inherited
\* one and one from a fixed role.
ExternalGrants ==
    { Grant("", 9, 0, "Admin", TRUE, TRUE),
      Grant("Viewer", 0, 0, "View", FALSE, FALSE) }

\* The IDs a resource is imported with: without and with an org segment.
ImportIDs == {FolderUID, MakeOrgResourceID(2, FolderUID)}

\* Grafana's answers to a call about the folder.
Answers == IF folder THEN {"ok", "error"} ELSE {"notfound", "error"}

\* Grafana's answers to the calls of one handler, in the order the handler
\* asks; a call the handler does not reach has the answer "ok".
Env(set, exists, fetch) == [set |-> set, exists |-> exists, fetch |-> fetch]

ReadEnvs ==
    {Env("ok", a, "ok") : a \in Answers \ {"ok"}}
        \cup {Env("ok", "ok", a) : a \in {b \in Answers : "ok" \in Answers}}

ClearEnvs == {Env(a, "ok", "ok") : a \in Answers}

ApplyEnvs == ClearEnvs \cup {e \in ReadEnvs : "ok" \in Answers}

\* --------------------------------------------------------- the state machine

\* The record of a step: its name, the declared set it was given and the
\* diagnostics it returned, and what it came after: "clear", a clear whose
\* write was accepted; "apply", an apply of the same declared set whose write
\* was accepted; "other", anything else.
Op(name, s, diags) ==
    [name |-> name, declared |-> s, diags |-> diags,
     after |-> IF calls # <<>> /\ calls[1].api = "SetResourcePermissions"
                  /\ calls[1].result = "ok"
                  /\ (op.name = "clear" \/ (op.name = "apply" /\ op.declared = s))
               THEN op.name
               ELSE "other"]

Init ==
    /\ folder \in BOOLEAN
    /\ grants \in (IF folder THEN SUBSET ExternalGrants ELSE {{}})
    /\ d = [id |-> <<>>, org_id |-> <<>>, folder_uid |-> FolderUID,
            permissions |-> {}]
    /\ calls = <<>>
    /\ op = [name |-> "none", declared |-> {}, diags |-> "nil",
             after |-> "other"]

\* What a handler given the declared set s leaves when it returns r.
Leave(name, s, r) ==
    /\ d' = r.d
    /\ grants' = r.grants
    /\ calls' = r.calls
    /\ op' = Op(name, s, r.diags)
    /\ UNCHANGED folder

\* Create or update: the configuration's folder_uid and declared set are in
\* the resource data when UpdateFolderPermissions runs.
Apply ==
    \E s \in DeclaredSets, env \in ApplyEnvs :
      \E r \in UpdateFolderPermissions(
                  [d EXCEPT !.folder_uid = FolderUID, !.permissions = s],
                  grants, env) :
        Leave("apply", s, r)

\* Refresh of a resource that has an ID.
Read ==
    /\ d.id # <<>>
    /\ \E env \in ReadEnvs :
         \E r \in ReadFolderPermissions(d, grants, env) :
           Leave("read", {}, r)

\* Destroy of a resource that has an ID. d stays as the handler left it: a
\* read or a delete of the same ID can follow, as after an import of that ID.
Clear ==
    /\ d.id # <<>>
    /\ \E env \in ClearEnvs :
         \E r \in DeleteFolderPermissions(d, grants, env) :
           Leave("clear", {}, r)

\* schema.ImportStatePassthroughContext: the ID is all that is known.
Import ==
    /\ d.id = <<>>
    /\ \E id \in ImportIDs :
         d' = [id |-> id, org_id |-> <<>>, folder_uid |-> <<>>, permissions |-> {}]
    /\ calls' = <<>>
    /\ op' = Op("import", {}, "nil")
    /\ UNCHANGED <<folder, grants>>

\* What somebody else does to the folder.
External(f, gr) ==
    /\ folder' = f
    /\ grants' = gr
    /\ calls' = <<>>
    /\ op' = Op("external", {}, "nil")
    /\ UNCHANGED d

DeleteFolder == folder /\ External(FALSE, {})

CreateFolder == ~folder /\ External(TRUE, {})

ChangeGrant ==
    /\ folder
    /\ \E g \in ExternalGrants :
         External(TRUE, IF g \in grants THEN grants \ {g} ELSE grants \cup {g})

Next ==
    \/ Apply
    \/ Read
    \/ Clear
    \/ Import
    \/ DeleteFolder
    \/ CreateFolder
    \/ ChangeGrant

Spec == Init /\ [][Next]_vars

\* ------------------------------------------- the conversions on their own

\* The values the fields of a written entry take: an unset and a set role;
\* team IDs that are unset, set, set with an org segment, negative, a prefix
\* of one another, no number, and too large for the integer width; user IDs
\* that are unset and that end or start like a team ID; two permissions.
WrittenRoles == {"", "Editor"}

WrittenTeamIDs ==
    { <<"0">>, <<"5">>, <<"1", ":", "5">>, <<"-", "1">>, <<"1">>,
      <<"1", "2">>, <<"x">>, <<"9", "9">> }

WrittenUserIDs == { <<"0">>, <<"3">>, <<"2", "3">> }

WrittenPermissions == {"View", "Edit"}

WrittenEntries ==
    {Entry(r, t, u, p) : r \in WrittenRoles, t \in WrittenTeamIDs,
                         u \in WrittenUserIDs, p \in WrittenPermissions}

\* The permissions blocks of a configuration: one entry or two.
WrittenBlocks == {{e, f} : e, f \in WrittenEntries}

\* The org_id attribute of a configuration: unset, or an org of its own.
WrittenOrgIDs == { <<>>, <<"1", "2">> }

\* The folder_uid of a configuration; a UID may hold a colon.
WrittenUIDs == { FolderUID, <<"a", ":", "b">> }

\* A configuration that has not been applied: op.declared holds the entries as
\* written, before they are put into the schema.Set.
InitWritten ==
    /\ folder = TRUE
    /\ grants = {}
    /\ d \in {[id |-> <<>>, org_id |-> o, folder_uid |-> u, permissions |-> {}] :
                 o \in WrittenOrgIDs, u \in WrittenUIDs}
    /\ calls = <<>>
    /\ op \in {[name |-> "none", declared |-> b, diags |-> "nil",
                after |-> "other"] : b \in WrittenBlocks}

\* Create: the written entries are put into the schema.Set of "permissions",
\* and UpdateFolderPermissions runs on it. op.declared keeps the entries as
\* written.
Create ==
    /\ d.id = <<>>
    /\ op.name = "none"
    /\ \E s \in SchemaSets(op.declared), env \in {e \in ApplyEnvs : e.set = "ok"} :
         \E r \in UpdateFolderPermissions([d EXCEPT !.permissions = s],
                                          grants, env) :
           Leave("apply", op.declared, r)

\* The refresh and the destroy that follow the create.
Refresh == op.name = "apply" /\ Read

Destroy == op.name = "apply" /\ Clear

NextWritten ==
    \/ Create
    \/ Refresh
    \/ Destroy

SpecWritten == InitWritten /\ [][NextWritten]_vars

\* ------------------------------------------------ two independent callers

\* Two runs of the provider that apply to the one folder at the same time.
Callers == {"c1", "c2"}

\* Each caller has its own resource data d[c] and its own place op[c] in
\* UpdateFolderPermissions: "start", "wrote" (the write call has returned and
\* the ID is set) or "done"; op[c].declared is its declared set. calls is the
\* sequence of all calls as they reach Grafana.
InitCallers ==
    /\ folder = TRUE
    /\ grants \in SUBSET ExternalGrants
    /\ d \in [Callers -> {[id |-> <<>>, org_id |-> <<>>, folder_uid |-> FolderUID,
                           permissions |-> s] : s \in DeclaredSets}]
    /\ calls = <<>>
    /\ op = [c \in Callers |->
                [name |-> "start", declared |-> d[c].permissions,
                 diags |-> "nil", after |-> "other"]]

\* The write call of caller c reaches Grafana and returns.
CallerWrite(c) ==
    /\ op[c].name = "start"
    /\ \E answer \in Answers :
         LET r == UpdateFolderPermissionsWrite(d[c], grants, answer)
         IN  /\ d' = [d EXCEPT ![c] = r.d]
             /\ grants' = r.grants
             /\ calls' = calls \o r.calls
             /\ op' = [op EXCEPT ![c].name = IF r.diags = "nil" THEN "wrote"
                                             ELSE "done",
                                 ![c].diags = r.diags]
    /\ UNCHANGED folder

\* Caller c reads back. Its two calls only read, and the answer of the first
\* does not depend on the grants, so they are taken together.
CallerRead(c) ==
    /\ op[c].name = "wrote"
    /\ \E env \in ReadEnvs :
         \E r \in ReadFolderPermissions(d[c], grants, env) :
            /\ d' = [d EXCEPT ![c] = r.d]
            /\ grants' = r.grants
            /\ calls' = calls \o r.calls
            /\ op' = [op EXCEPT ![c].name = "done", ![c].diags = r.diags]
    /\ UNCHANGED folder

NextCallers == \E c \in Callers : CallerWrite(c) \/ CallerRead(c)

SpecCallers == InitCallers /\ [][NextCallers]_vars

\* ------------------------------------------------------------ the claims

\* The write call of the last apply or clear.
Write == calls[1]

\* The declared set the last apply was given.
Declared == op.declared

\* The commands that would create the grants this resource owns.
OwnedCommands(gr) == {CommandOfGrant(g) : g \in Owned(gr)}

\* The last handler read the grants: its last call is a grant fetch that
\* Grafana answered.
FetchedGrants ==
    /\ op.name \in {"apply", "read"}
    /\ calls # <<>>
    /\ calls[Len(calls)].api = "GetResourcePermissions"
    /\ calls[Len(calls)].result = "ok"

\* C1. Full replace: after an apply whose write succeeded, the managed, not
\* inherited grants of the folder are exactly the commands of the declared
\* entries, and the handler made one write call and no other.
C1_FullReplace ==
    (op.name = "apply" /\ Write.result = "ok") =>
        /\ OwnedCommands(grants) = {ToCommand(e) : e \in Declared}
        /\ \A i \in 1..Len(calls) :
              calls[i].api = "SetResourcePermissions" <=> i = 1

\* C1 witness: an apply of two entries succeeded on a folder that also has
\* grants the resource does not own.
C1_Witness ==
    /\ op.name = "apply"
    /\ op.diags = "nil"
    /\ Write.result = "ok"
    /\ Cardinality(Declared) = 2
    /\ Cardinality(Owned(grants)) = 2
    /\ grants \ Owned(grants) # {}

\* C2 as claimed. No partial success: an apply or clear that reports a failure
\* left the folder's grants as they were; one that reports success replaced
\* the owned grants by the submitted list.
C2_NoPartialSuccess ==
    [][ op'.name \in {"apply", "clear"} =>
          /\ op'.diags = "error" => grants' = grants
          /\ op'.diags = "nil" =>
                OwnedCommands(grants') = CommandsOf(calls'[1].body) ]_vars

\* C2 amended. A write call that fails leaves the grants as they were and a
\* write call that succeeds replaces the owned grants by the submitted list;
\* a failure is reported exactly when the write fails for another reason than
\* a missing folder on clear, or when the write of an apply succeeded and its
\* read path failed, in which case the grants have been replaced.
C2_WriteAllOrNothing ==
    [][ op'.name \in {"apply", "clear"} =>
          LET w == calls'[1]
              gone == op'.name = "clear" /\ w.result = "notfound"
          IN  /\ w.result # "ok" => grants' = grants
              /\ w.result = "ok" =>
                    OwnedCommands(grants') = CommandsOf(w.body)
              /\ (w.result # "ok" /\ ~gone) => op'.diags = "error"
              /\ op'.diags = "error" =>
                    \/ w.result # "ok" /\ ~gone
                    \/ /\ op'.name = "apply"
                       /\ calls'[Len(calls')].result = "error" ]_vars

\* C2 witness: an apply reported a failure after its write had replaced the
\* grants.
C2_Witness ==
    /\ op.name = "apply"
    /\ op.diags = "error"
    /\ Write.result = "ok"
    /\ Declared # {}
    /\ OwnedCommands(grants) = CommandsOf(Write.body)

\* C3. After a clear that succeeded on an existing folder, a read that follows
\* with nothing in between and succeeds returns an empty declared set.
C3_ClearThenReadEmpty ==
    (op.name = "read" /\ op.after = "clear" /\ op.diags = "nil") =>
        d.permissions = {} /\ d.id # <<>>

\* C3 witness: a read right after an accepted clear returned an empty set from
\* a folder that still has grants the resource does not own, where the
\* resource data held entries before.
C3_Witness ==
    /\ op.name = "read"
    /\ op.after = "clear"
    /\ op.diags = "nil"
    /\ FetchedGrants
    /\ d.permissions = {}
    /\ grants # {}

\* C4. Idempotence of apply: an apply that follows an apply of the same
\* declared set, both writes accepted, leaves the folder's grants as the first
\* left them.
C4_ApplyIdempotent ==
    [][ ( /\ op'.name = "apply" /\ op'.after = "apply"
          /\ calls'[1].result = "ok" )
        => grants' = grants ]_vars

\* C4 witness: a second apply of the same non-empty declared set was accepted.
C4_Witness ==
    /\ op.name = "apply"
    /\ op.after = "apply"
    /\ Write.result = "ok"
    /\ Declared # {}
    /\ OwnedCommands(grants) = {ToCommand(e) : e \in Declared}

\* C5. Read filtering: the declared set a read returns holds the entry of
\* every managed, not inherited grant of the folder and no other entry.
C5_ReadFiltering ==
    FetchedGrants =>
        /\ \A g \in grants :
              (g.isManaged /\ ~g.isInherited) => ToEntry(g) \in d.permissions
        /\ \A e \in d.permissions :
              \E g \in grants :
                 g.isManaged /\ ~g.isInherited /\ ToEntry(g) = e
        /\ grants = { Grant("", 5, 0, "View", TRUE, FALSE),
                      Grant("", 9, 0, "Admin", TRUE, TRUE) }
              => d.permissions = { Entry("", <<"5">>, <<"0">>, "View") }

\* C5 witness: a read of a folder with a managed grant of team 5 and an
\* inherited grant of team 9 returned the one entry of team 5.
C5_Witness ==
    /\ op.name = "read"
    /\ FetchedGrants
    /\ grants = { Grant("", 5, 0, "View", TRUE, FALSE),
                  Grant("", 9, 0, "Admin", TRUE, TRUE) }
    /\ d.permissions = { Entry("", <<"5">>, <<"0">>, "View") }

\* The decimal string of 0 or of a positive integer: digits, no sign, no org
\* segment, no leading zero.
IsDecimal(s) ==
    /\ s # <<>>
    /\ \A i \in 1..Len(s) : IsDigit(s[i])
    /\ Len(s) > 1 => s[1] # "0"

\* The number a decimal string writes fits the integer width.
FitsInt64(s) == DigitsValue(s) <= MaxInt64

\* An entry converted to a command and read back as a managed, not inherited
\* grant.
RoundTrip(e) == ToEntry(GrantOf(ToCommand(e)))

\* C6 as claimed. Round trip: an entry whose team_id and user_id are decimal
\* strings comes back equal from the conversion to a command and back, and an
\* apply of such entries that wrote and read back holds the declared set.
C6_RoundTrip ==
    ( /\ op.name = "apply" /\ FetchedGrants
      /\ \A e \in Declared : IsDecimal(e.team_id) /\ IsDecimal(e.user_id) )
    => /\ \A e \in Declared : RoundTrip(e) = e
       /\ d.permissions = Declared

\* C6 amended. The same for entries whose team_id and user_id are decimal
\* strings of numbers that fit a signed 64-bit integer.
C6_RoundTripInt64 ==
    ( /\ op.name = "apply" /\ FetchedGrants
      /\ \A e \in Declared :
            /\ IsDecimal(e.team_id) /\ FitsInt64(e.team_id)
            /\ IsDecimal(e.user_id) /\ FitsInt64(e.user_id) )
    => /\ \A e \in Declared : RoundTrip(e) = e
       /\ d.permissions = Declared

\* C6 witness: an apply of a role entry and a team entry, on a folder with
\* grants the resource does not own, read back the two entries.
C6_Witness ==
    /\ op.name = "apply"
    /\ FetchedGrants
    /\ Declared = {Samples[1], Samples[2]}
    /\ d.permissions = Declared
    /\ grants \ Owned(grants) # {}

\* C7. A clear whose write is answered not-found returns no error and leaves
\* the resource without ID; any other error of the write is returned. The
\* write is the only call.
C7_ClearMissingFolder ==
    op.name = "clear" =>
        /\ Len(calls) = 1
        /\ Write.api = "SetResourcePermissions"
        /\ Write.result = "notfound" => (op.diags = "nil" /\ d.id = <<>>)
        /\ Write.result = "error" => op.diags = "error"
        /\ Write.result = "ok" => op.diags = "nil"

\* C7 witness: a clear of a folder that is gone returned no error and dropped
\* the ID.
C7_Witness ==
    /\ op.name = "clear"
    /\ ~folder
    /\ Write.result = "notfound"
    /\ op.diags = "nil"
    /\ d.id = <<>>

\* C8. A read whose existence check is answered not-found returns no error,
\* drops the ID, does not fetch the grants and leaves folder_uid, org_id and
\* permissions as they were; a read whose existence check or grant fetch
\* fails otherwise returns the error and leaves the resource data as it was.
C8_ReadMissingFolder ==
    [][ op'.name = "read" =>
          LET c1 == calls'[1]
          IN  /\ c1.api = "GetFolderByUID"
              /\ c1.result = "notfound" =>
                    /\ op'.diags = "nil"
                    /\ Len(calls') = 1
                    /\ d' = [d EXCEPT !.id = <<>>]
              /\ c1.result = "error" =>
                    /\ op'.diags = "error"
                    /\ Len(calls') = 1
                    /\ d' = d
              /\ (c1.result = "ok" /\ calls'[2].result = "error") =>
                    /\ op'.diags = "error"
                    /\ d' = d ]_vars

\* C8 witness: a read of a folder that is gone returned no error after one
\* call, with the ID dropped and the permissions kept.
C8_Witness ==
    /\ op.name = "read"
    /\ ~folder
    /\ op.diags = "nil"
    /\ Len(calls) = 1
    /\ calls[1].result = "notfound"
    /\ d.id = <<>>
    /\ d.permissions # {}

\* C9. An apply whose write is rejected returns the error after that one
\* call, and leaves the ID and the folder's grants as they were.
C9_ApplyRejected ==
    [][ (op'.name = "apply" /\ calls'[1].result # "ok") =>
          /\ op'.diags = "error"
          /\ Len(calls') = 1
          /\ calls'[1].api = "SetResourcePermissions"
          /\ d'.id = d.id
          /\ grants' = grants ]_vars

\* C9 witness: the apply that would create the resource was rejected: no ID
\* is set.
C9_Witness ==
    /\ op.name = "apply"
    /\ op.diags = "error"
    /\ Len(calls) = 1
    /\ Write.result = "error"
    /\ Declared # {}
    /\ d.id = <<>>

\* The operations of the calls of the last handler, in order.
Apis == [i \in 1..Len(calls) |-> calls[i].api]

\* C10 as claimed. Each of apply, read and clear makes one or two calls, and
\* of two the existence check is the first and the read or write of grants
\* the second.
C10_OneOrTwoCalls ==
    op.name \in {"apply", "read", "clear"} =>
        /\ Len(calls) \in {1, 2}
        /\ Len(calls) = 2 =>
              /\ calls[1].api = "GetFolderByUID"
              /\ calls[2].api \in {"GetResourcePermissions",
                                   "SetResourcePermissions"}

\* C10 amended. A read makes the existence check and, when that is answered,
\* the grant fetch; a clear makes the write and no other call; an apply makes
\* the write first and, when the write is accepted, the existence check and
\* then the grant fetch of its read path: three calls when all are answered.
C10_CallOrder ==
    LET readPath == <<"GetFolderByUID", "GetResourcePermissions">>
        answered == {i \in 1..Len(calls) : calls[i].result = "ok"}
    IN  /\ op.name = "read" =>
              Apis \in {SubSeq(readPath, 1, 1), readPath}
        /\ op.name = "clear" => Apis = <<"SetResourcePermissions">>
        /\ op.name = "apply" =>
              Apis \in {<<"SetResourcePermissions">> \o SubSeq(readPath, 1, n) :
                          n \in 0..2}
        /\ op.name \in {"apply", "read"} =>
              /\ \A i \in 1..(Len(calls) - 1) : i \in answered
              /\ Len(calls) \in answered => Apis[Len(calls)] = "GetResourcePermissions"

\* C10 witness: an apply made three calls.
C10_Witness ==
    /\ op.name = "apply"
    /\ op.diags = "nil"
    /\ Apis = <<"SetResourcePermissions", "GetFolderByUID",
                "GetResourcePermissions">>

\* C11. Identity round trip: the ID that MakeOrgResourceID builds from an org
\* that is not negative and a folder UID that is not empty is split by
\* SplitOrgResourceID into that org and that UID; the ID an apply stores is
\* built from the org and the folder of its write, and the read or clear that
\* follows addresses the same org and the same folder.
C11_IdentityRoundTrip ==
    [][ /\ op.name = "none" =>
              LET org == ParseInt(d.org_id)
              IN  /\ org >= 0 /\ d.folder_uid # <<>>
                  /\ SplitOrgResourceID(MakeOrgResourceID(org, d.folder_uid))
                        = [org |-> org, id |-> d.folder_uid]
        /\ (op'.name = "apply" /\ calls'[1].result = "ok") =>
              /\ calls'[1].uid = d.folder_uid
              /\ d'.id = MakeOrgResourceID(calls'[1].org, calls'[1].uid)
              /\ SplitOrgResourceID(d'.id)
                    = [org |-> calls'[1].org, id |-> calls'[1].uid]
        /\ (op'.name \in {"read", "clear"} /\ op.name = "apply"
               /\ calls[1].result = "ok") =>
              /\ calls'[1].org = calls[1].org
              /\ calls'[1].uid = calls[1].uid ]_vars

\* C11 witness: a read that followed the apply of org 12 and a folder UID that
\* holds a colon addressed that org and that folder.
C11_Witness ==
    /\ op.name = "read"
    /\ op.diags = "nil"
    /\ d.id = <<"1", "2", ":", "a", ":", "b">>
    /\ calls[1].org = 12
    /\ calls[1].uid = <<"a", ":", "b">>

\* The integer a written team or user ID names, read off the string by hand:
\* an org segment is no part of it, and an ID that is no number names none (0).
WrittenValue(s) ==
    CASE s = <<"0">>           -> 0
      [] s = <<"5">>           -> 5
      [] s = <<"1", ":", "5">> -> 5
      [] s = <<"-", "1">>      -> -1
      [] s = <<"1">>           -> 1
      [] s = <<"1", "2">>      -> 12
      [] s = <<"x">>           -> 0
      [] s = <<"9", "9">>      -> 99
      [] s = <<"3">>           -> 3
      [] s = <<"2", "3">>      -> 23

\* The command of the last write that belongs to each entry it was built from.
Submitted == calls[1].body

\* C12 as claimed. to_command maps field by field: the role as it is, the
\* team and the user ID as the integer the entry names when that is greater
\* than zero and as 0 otherwise, the permission as it is; the submitted list
\* has one command for each member of the declared set, and the one entry
\* {Editor, "0", "0", Edit} gives the one command {Editor, 0, 0, Edit}.
C12_FieldByField ==
    op.name = "apply" =>
        LET id(s) == IF WrittenValue(s) > 0 THEN WrittenValue(s) ELSE 0
        IN  /\ DOMAIN Submitted \subseteq op.declared
            /\ \A e \in op.declared :
                  \E f \in DOMAIN Submitted : HashKey(f) = HashKey(e)
            /\ \A e \in DOMAIN Submitted :
                  Submitted[e] = Command(e.role, id(e.team_id), id(e.user_id),
                                         e.permission)
            /\ op.declared = {Entry("Editor", <<"0">>, <<"0">>, "Edit")} =>
                  CommandsOf(Submitted) = {Command("Editor", 0, 0, "Edit")}

\* C12 amended. The same, with an ID that names an integer above the largest
\* signed 64-bit integer mapped to that largest integer.
C12_FieldByFieldInt64 ==
    op.name = "apply" =>
        LET id(s) == IF WrittenValue(s) > MaxInt64 THEN MaxInt64
                     ELSE IF WrittenValue(s) > 0 THEN WrittenValue(s) ELSE 0
        IN  /\ DOMAIN Submitted \subseteq op.declared
            /\ \A e \in op.declared :
                  \E f \in DOMAIN Submitted : HashKey(f) = HashKey(e)
            /\ \A e \in DOMAIN Submitted :
                  Submitted[e] = Command(e.role, id(e.team_id), id(e.user_id),
                                         e.permission)
            /\ op.declared = {Entry("Editor", <<"0">>, <<"0">>, "Edit")} =>
                  CommandsOf(Submitted) = {Command("Editor", 0, 0, "Edit")}

\* C12 witness: an apply of an entry without role whose team ID is negative
\* and of an entry with a team and a user submitted two commands, the first
\* with no subject at all.
C12_Witness ==
    /\ op.name = "apply"
    /\ op.declared = { Entry("", <<"-", "1">>, <<"0">>, "View"),
                       Entry("Editor", <<"1", "2">>, <<"3">>, "Edit") }
    /\ CommandsOf(Submitted) = { Command("", 0, 0, "View"),
                                 Command("Editor", 12, 3, "Edit") }

\* s is t with an org segment in front: digits, a colon, then t, which holds
\* no colon.
OrgQualified(s, t) ==
    \E k \in 2..Len(s) :
        /\ \A i \in 1..(k - 1) : IsDigit(s[i])
        /\ s[k] = ":"
        /\ t = [i \in 1..(Len(s) - k) |-> s[k + i]]
        /\ \A i \in 1..Len(t) : t[i] # ":"

\* Two entries that differ only by an org segment on team_id or user_id.
DifferByOrgOnly(e, f) ==
    /\ e # f
    /\ e.role = f.role /\ e.permission = f.permission
    /\ e.team_id = f.team_id \/ OrgQualified(e.team_id, f.team_id)
                             \/ OrgQualified(f.team_id, e.team_id)
    /\ e.user_id = f.user_id \/ OrgQualified(e.user_id, f.user_id)
                             \/ OrgQualified(f.user_id, e.user_id)

\* C17. The identity key ignores the org qualifier: two written entries that
\* differ only by an org segment on team_id or user_id have one key, are one
\* member of the declared set, and give one command whichever of them stays.
C17_KeyIgnoresOrg ==
    op.name = "apply" =>
        \A e, f \in op.declared :
            DifferByOrgOnly(e, f) =>
                /\ HashKey(e) = HashKey(f)
                /\ Cardinality(DOMAIN Submitted) = 1
                /\ ToCommand(e) = ToCommand(f)
                /\ CommandsOf(Submitted) = {ToCommand(e)}

\* C17 witness: an apply of the entries of team "1:5" and of team "5"
\* submitted the one command of team 5.
C17_Witness ==
    /\ op.name = "apply"
    /\ op.declared = { Entry("", <<"1", ":", "5">>, <<"0">>, "View"),
                       Entry("", <<"5">>, <<"0">>, "View") }
    /\ CommandsOf(Submitted) = { Command("", 5, 0, "View") }
    /\ Cardinality(DOMAIN Submitted) = 1

\* The fields the identity key is computed from: role, team ID and user ID
\* without org segment, permission.
Normalized(e) ==
    <<e.role, SplitOrgResourceID(e.team_id).id,
      SplitOrgResourceID(e.user_id).id, e.permission>>

\* C18. The identity key is injective on the normalized fields: two written
\* entries that differ in role, team ID, user ID or permission have different
\* keys and are both members of the declared set that is submitted.
C18_KeyInjective ==
    op.name = "apply" =>
        \A e, f \in op.declared :
            Normalized(e) # Normalized(f) =>
                /\ HashKey(e) # HashKey(f)
                /\ {e, f} \subseteq DOMAIN Submitted

\* C19 as claimed. The submitted list never holds two equal commands: two
\* members of the declared set give different commands, whatever their team
\* and user IDs.
C19_DistinctCommands ==
    op.name = "apply" =>
        \A e, f \in DOMAIN Submitted :
            e # f => Submitted[e] # Submitted[f]

\* A team or user ID that, after its org segment, is the decimal string of 0
\* or of a positive integer that fits a signed 64-bit integer.
IsInt64ID(s) ==
    LET id == SplitOrgResourceID(s).id
    IN  IsDecimal(id) /\ FitsInt64(id)

\* C19 amended. Two members of the declared set whose team and user IDs are
\* decimal strings of integers from 0 to the largest signed 64-bit integer
\* give different commands.
C19_DistinctCommandsInt64 ==
    op.name = "apply" =>
        \A e, f \in DOMAIN Submitted :
            ( /\ e # f
              /\ IsInt64ID(e.team_id) /\ IsInt64ID(e.user_id)
              /\ IsInt64ID(f.team_id) /\ IsInt64ID(f.user_id) )
            => Submitted[e] # Submitted[f]

\* C19 witness: an apply of a role entry and a user entry that differ in
\* nothing else, both with team ID zero, submitted two different commands.
C19_Witness ==
    /\ op.name = "apply"
    /\ DOMAIN Submitted = { Entry("Editor", <<"0">>, <<"3">>, "View"),
                            Entry("", <<"0">>, <<"3">>, "View") }
    /\ Cardinality(CommandsOf(Submitted)) = 2

\* C13. Empty declaration equals clear: an apply of no entries and a clear
\* both start with a set-permissions call of type "folders" for the folder of
\* the resource that carries no command, and both leave the folder with the
\* grants it had less the managed, not inherited ones when the call is
\* accepted, and with the grants it had when it is not.
C13_EmptyApplyIsClear ==
    [][ (op'.name = "clear" \/ (op'.name = "apply" /\ op'.declared = {})) =>
          LET w == calls'[1]
          IN  /\ w.api = "SetResourcePermissions"
              /\ w.type = "folders"
              /\ w.uid = FolderUID
              /\ DOMAIN w.body = {}
              /\ w.result = "ok" =>
                    grants' = {g \in grants : ~g.isManaged \/ g.isInherited}
              /\ w.result # "ok" => grants' = grants ]_vars

\* C13 witness: an apply of no entries was accepted for a resource that
\* exists, on a folder that keeps grants the resource does not own.
C13_Witness ==
    /\ op.name = "apply"
    /\ Declared = {}
    /\ Write.api = "SetResourcePermissions"
    /\ Write.result = "ok"
    /\ Write.body = NoBody
    /\ Owned(grants) = {}
    /\ grants # {}

\* C15. Frame of clear and read: a clear leaves the folder and every grant
\* that is not managed or is inherited as they were and adds no grant; a read
\* makes no write call and leaves the folder and all its grants as they were.
C15_Frame ==
    [][ /\ op'.name = "clear" =>
              /\ folder' = folder
              /\ {g \in grants' : ~g.isManaged \/ g.isInherited}
                    = {g \in grants : ~g.isManaged \/ g.isInherited}
              /\ grants' \subseteq grants
        /\ op'.name = "read" =>
              /\ folder' = folder
              /\ grants' = grants
              /\ \A i \in 1..Len(calls') :
                    calls'[i].api # "SetResourcePermissions" ]_vars

\* C15 witness: an accepted clear of a resource that held entries left a
\* folder whose only grants are two the resource does not own.
C15_Witness ==
    /\ op.name = "clear"
    /\ folder
    /\ Write.result = "ok"
    /\ d.permissions # {}
    /\ grants = ExternalGrants

\* The resource data holds the identity an apply or a read stores: the ID is
\* MakeOrgResourceID of its org_id and its folder_uid.
StoredIdentity(rd) ==
    rd.id = MakeOrgResourceID(ParseInt(rd.org_id), rd.folder_uid)

AcceptedWrites ==
    {i \in 1..Len(calls) :
        calls[i].api = "SetResourcePermissions" /\ calls[i].result = "ok"}

\* The write call Grafana accepted last.
LastWrite == calls[CHOOSE i \in AcceptedWrites : \A j \in AcceptedWrites : j <= i]

\* C14. Last writer wins: whenever a write of one of two callers has been
\* accepted, in every interleaving of their calls, the managed, not inherited
\* grants of the folder are exactly the commands of the declared set of the
\* caller whose write was accepted last, and so never a mixture of the two
\* declared sets.
C14_LastWriterWins ==
    AcceptedWrites # {} =>
        /\ OwnedCommands(grants) = CommandsOf(LastWrite.body)
        /\ \E c \in Callers :
              /\ op[c].name # "start"
              /\ DOMAIN LastWrite.body = op[c].declared
              /\ OwnedCommands(grants) = {ToCommand(e) : e \in op[c].declared}

\* C14 witness: both callers are done, both writes were accepted, the two
\* declared sets have an entry each that the other has not, and the write of
\* c1 came last, after c2 had written and before c2 read back.
C14_Witness ==
    /\ \A c \in Callers : op[c].name = "done"
    /\ Cardinality(AcceptedWrites) = 2
    /\ op["c1"].declared \ op["c2"].declared # {}
    /\ op["c2"].declared \ op["c1"].declared # {}
    /\ DOMAIN LastWrite.body = op["c1"].declared
    /\ calls[1].api = "SetResourcePermissions"
    /\ calls[2].api = "SetResourcePermissions"
    /\ OwnedCommands(grants) = {ToCommand(e) : e \in op["c1"].declared}

====
